---- MODULE Spec2Model ----
(***************************************************************************)
(* The quota-and-extension lifecycle of persona-gpt: the /chat,            *)
(* /approve-extension, /deny-extension and /extension-requests handlers of *)
(* app.py over the                                                         *)
(* request ledger (extension_requests.ndjson, extension_manager.py), the   *)
(* approval ledger (approved_extensions.json) and the client-side session. *)
(***************************************************************************)
EXTENDS Integers, Sequences, FiniteSets, TLC

(***************************************************************************)
(* Bounds of the model.                                                    *)
(***************************************************************************)
\* the request ledger holds at most MaxRequests lines
MaxRequests == 2
\* LLM calls the environment lets fail in one run
MaxFailures == 1

(***************************************************************************)
(* Configuration (app.py reads both from the environment).  The model runs *)
(* the deployment MAX_QUERIES_PER_SESSION=1, MAX_QUERY_LENGTH=3.           *)
(***************************************************************************)
MAX_QUERIES_PER_SESSION == 1
MAX_QUERY_LENGTH == 3

\* ExtensionRequest.approved_at: Optional[str] = None
None == -1

\* The browser sessions, named by the session_id get_session_id gave them.
Sessions == {"s1", "s2"}

\* Keys an administrator call may carry; "" is a call without a key.
Keys == {"", "k1", "bad"}

\* queries_granted values an administrator submits
GrantValues == {0, 1}

(***************************************************************************)
(* Messages.  A message is a sequence of characters.  "w" is an ordinary   *)
(* character and "_" a whitespace character; "j1","j2" are the two halves  *)
(* of a phrase matched by one of sanitize_input's patterns_to_remove       *)
(* (such as "user:"); "a1","a2" are the two halves of a substring          *)
(* EMAIL_REGEX matches, the address e1.  Half a phrase or half an address  *)
(* matches nothing.                                                        *)
(***************************************************************************)
Messages ==
    { <<>>,                          \* ""
      <<"_">>,                       \* whitespace only
      <<"j1", "j2">>,                \* nothing but an injection phrase
      <<"w", "w", "w">>,             \* a question of MAX_QUERY_LENGTH characters
      <<"w", "w", "w", "w">>,        \* a question longer than MAX_QUERY_LENGTH
      <<"w", "w", "w", "_", "a1", "a2">> }   \* a sentence with an e-mail address

Question == <<"w", "w", "w">>
EmailMessage == <<"w", "w", "w", "_", "a1", "a2">>

\* The JSON body of a /chat call: none, one without 'message', one with it.
NoBody == [kind |-> "none", message |-> <<>>]

ChatBodies ==
    { NoBody, [kind |-> "nokey", message |-> <<>>] }
    \cup { [kind |-> "msg", message |-> m] : m \in Messages }

\* What classify_intent answers ("error": it raised), whether the
\* completion call succeeds and what becomes of a notification, for one
\* /chat call.
ServiceOutcomes ==
    { <<"IN_SCOPE", "ok", "sent">>, <<"OUT_OF_SCOPE", "ok", "sent">>,
      <<"error", "ok", "sent">>, <<"IN_SCOPE", "error", "sent">> }

\* What becomes of the administrator's notification mail: sent, not
\* attempted for want of SMTP settings or ADMIN_EMAIL, refused by the SMTP
\* server, timed out, or an exception raised while the mail is composed.
NotifyOutcomes == {"sent", "unconfigured", "smtp_error", "timeout", "raised"}

Body(m) == [kind |-> "msg", message |-> m]

\* The threads of the server that can be inside /chat at the same time.
Workers == {"w1", "w2"}

Idle == [pc |-> "idle"]

VARIABLES
    cookie,           \* session_id -> the client-side Flask session
    ledgerFile,       \* extension_requests.ndjson
    approvalsFile,    \* approved_extensions.json
    ADMIN_RESET_KEY,  \* the configured admin secret ("" when not configured)
    inflight,         \* worker -> the /chat call it is in the middle of
    failures,         \* LLM calls that have failed so far
    last              \* the last completed call and its response

vars == <<cookie, ledgerFile, approvalsFile, ADMIN_RESET_KEY, inflight, failures, last>>

Max(S) == CHOOSE x \in S : \A y \in S : y <= x

Min(a, b) == IF a < b THEN a ELSE b

\* f"{session_id}_{int(datetime.now().timestamp())}" of create_request
request_id_of(session_id, t) == <<session_id, t>>

\* What datetime.now() may answer, in whole seconds.
Times == {0, 1}

\* the request ids an administrator call may name, existing or not
RequestIds == { request_id_of(s, t) : s \in Sessions, t \in Times }

(***************************************************************************)
(* str.strip, sanitize_input, extract_email                                *)
(***************************************************************************)
RECURSIVE lstrip(_)
lstrip(m) == IF m # <<>> /\ Head(m) = "_" THEN lstrip(Tail(m)) ELSE m

RECURSIVE rstrip(_)
rstrip(m) ==
    IF m # <<>> /\ m[Len(m)] = "_" THEN rstrip(SubSeq(m, 1, Len(m) - 1)) ELSE m

strip(m) == rstrip(lstrip(m))

\* re.sub(pattern, '', user_input): one left-to-right pass
RECURSIVE remove_patterns(_)
remove_patterns(m) ==
    IF m = <<>> THEN <<>>
    ELSE IF Len(m) >= 2 /\ m[1] = "j1" /\ m[2] = "j2"
         THEN remove_patterns(SubSeq(m, 3, Len(m)))
         ELSE <<Head(m)>> \o remove_patterns(Tail(m))

sanitize_input(user_input) ==
    IF user_input = <<>> THEN <<>>
    ELSE strip(remove_patterns(SubSeq(user_input, 1, Min(Len(user_input), MAX_QUERY_LENGTH))))

\* re.findall(EMAIL_REGEX, text)[0], "" for None
RECURSIVE extract_email(_)
extract_email(text) ==
    IF Len(text) < 2 THEN ""
    ELSE IF text[1] = "a1" /\ text[2] = "a2" THEN "e1"
    ELSE extract_email(Tail(text))

(***************************************************************************)
(* The client-side session                                                 *)
(***************************************************************************)
NewSession ==
    [query_count |-> 0, conversation |-> <<>>,
     extension_requested |-> FALSE, extension_request_id |-> <<>>]

get_query_count(session) == session.query_count

\* the count is read and not written back
increment_query_count_lost(session) == session

increment_query_count(session) ==
    [session EXCEPT !.query_count = get_query_count(session) + 1]

get_conversation_history(session) == session.conversation

\* the slice written [:20] for [-20:]: the first 20 messages are kept
add_to_conversation_first_twenty(session, role, content) ==
    LET conversation == Append(get_conversation_history(session),
                               [role |-> role, content |-> content])
    IN [session EXCEPT !.conversation =
            SubSeq(conversation, 1, Min(Len(conversation), 20))]

add_to_conversation(session, role, content) ==
    LET conversation == Append(get_conversation_history(session),
                               [role |-> role, content |-> content])
        n == Len(conversation)
    IN [session EXCEPT !.conversation =
            IF n > 20 THEN SubSeq(conversation, n - 19, n) ELSE conversation]

(***************************************************************************)
(* The request ledger (extension_manager.py)                               *)
(***************************************************************************)
NoFile == [exists |-> FALSE, lines |-> <<>>]

ExtensionRequest(session_id, email, t) ==
    [session_id |-> session_id, email |-> email, timestamp |-> t,
     status |-> "pending", queries_granted |-> 0, approved_at |-> None,
     request_id |-> request_id_of(session_id, t)]

\* the record create_request builds, and the file after its append
create_request(file, session_id, email, t) ==
    [exists |-> TRUE, lines |-> Append(file.lines, ExtensionRequest(session_id, email, t))]

\* a record of any status blocks
has_pending_request_any_status(file, session_id) ==
    /\ file.exists
    /\ \E i \in 1..Len(file.lines) : file.lines[i].session_id = session_id

\* the pending check left out
has_pending_request_unchecked(file, session_id) == FALSE

has_pending_request(file, session_id) ==
    /\ file.exists
    /\ \E i \in 1..Len(file.lines) :
          /\ file.lines[i].session_id = session_id
          /\ file.lines[i].status = "pending"

\* index of the first line with this request_id, 0 when there is none
first_match(lines, request_id) ==
    LET hits == { i \in 1..Len(lines) : lines[i].request_id = request_id }
    IN IF hits = {} THEN 0 ELSE CHOOSE i \in hits : \A j \in hits : i <= j

NoRequest == [request_id |-> <<>>]

get_request_by_id(file, request_id) ==
    IF ~file.exists \/ first_match(file.lines, request_id) = 0 THEN NoRequest
    ELSE file.lines[first_match(file.lines, request_id)]

\* the list is returned in the order of the file
newest_first_file_order(requests) == requests

\* requests.sort(key=lambda r: r.timestamp, reverse=True): newest first,
\* records of one timestamp in the order of the file
RECURSIVE newest_first(_)
newest_first(requests) ==
    IF requests = <<>> THEN <<>>
    ELSE LET sorted == newest_first(SubSeq(requests, 1, Len(requests) - 1))
             r == requests[Len(requests)]
             ahead == { i \in 1..Len(sorted) : sorted[i].timestamp >= r.timestamp }
             k == IF ahead = {} THEN 0 ELSE Max(ahead)
         IN SubSeq(sorted, 1, k) \o <<r>> \o SubSeq(sorted, k + 1, Len(sorted))

get_all_requests(file, status_filter) ==
    IF ~file.exists THEN <<>>
    ELSE newest_first(SelectSeq(file.lines,
                                LAMBDA r : status_filter = "all" \/ r.status = status_filter))

get_pending_requests(file) ==
    IF ~file.exists THEN <<>>
    ELSE newest_first(SelectSeq(file.lines, LAMBDA r : r.status = "pending"))

\* the status is set, the grant is not written to the record
approve_request_status_only(file, request_id, queries_granted, t) ==
    IF ~file.exists THEN file
    ELSE LET i == first_match(file.lines, request_id)
         IN IF i = 0 THEN file
            ELSE [file EXCEPT !.lines[i] =
                    [@ EXCEPT !.status = "approved", !.approved_at = t]]

\* the loop has no break: every record with the request_id is changed
approve_request_every_match(file, request_id, queries_granted, t) ==
    IF ~file.exists THEN file
    ELSE [file EXCEPT !.lines =
            [i \in 1..Len(file.lines) |->
                IF file.lines[i].request_id = request_id
                THEN [file.lines[i] EXCEPT !.status = "approved",
                                           !.queries_granted = queries_granted,
                                           !.approved_at = t]
                ELSE file.lines[i]]]

approve_request(file, request_id, queries_granted, t) ==
    IF ~file.exists THEN file
    ELSE LET i == first_match(file.lines, request_id)
         IN IF i = 0 THEN file
            ELSE [file EXCEPT !.lines[i] =
                    [@ EXCEPT !.status = "approved",
                              !.queries_granted = queries_granted,
                              !.approved_at = t]]

\* only the matching record is written back
deny_request_alone(file, request_id, t) ==
    IF ~file.exists THEN file
    ELSE LET i == first_match(file.lines, request_id)
         IN IF i = 0 THEN file
            ELSE [file EXCEPT !.lines =
                    << [file.lines[i] EXCEPT !.status = "denied", !.approved_at = t] >>]

deny_request(file, request_id, t) ==
    IF ~file.exists THEN file
    ELSE LET i == first_match(file.lines, request_id)
         IN IF i = 0 THEN file
            ELSE [file EXCEPT !.lines[i] =
                    [@ EXCEPT !.status = "denied", !.approved_at = t]]

(***************************************************************************)
(* The approval ledger and the quota engine (app.py)                       *)
(***************************************************************************)
\* state is "missing" (no file), "ok" (json.load gives the object map) or
\* "unparseable" (json.load raises; map is what the file still holds)
NoApprovals == [state |-> "missing", map |-> <<>>]

\* json.load of the approvals file in approve_extension: {} when the file
\* is missing or does not parse
load_approvals(file) == IF file.state = "ok" THEN file.map ELSE <<>>

\* the grant is never added
get_max_queries_for_session_base(file, session_id) == MAX_QUERIES_PER_SESSION

\* without the try/except: what json.load or the missing key raises reaches
\* the caller, who is left without a limit
get_max_queries_for_session_unguarded(file, session_id) ==
    IF file.state = "unparseable" THEN None
    ELSE IF file.state = "ok" /\ session_id \in DOMAIN file.map
    THEN IF "queries_granted" \in DOMAIN file.map[session_id]
         THEN MAX_QUERIES_PER_SESSION + file.map[session_id].queries_granted
         ELSE None
    ELSE MAX_QUERIES_PER_SESSION

\* os.path.exists, json.load and approvals[session_id]['queries_granted']
\* inside try/except Exception: pass
get_max_queries_for_session(file, session_id) ==
    IF /\ file.state = "ok"
       /\ session_id \in DOMAIN file.map
       /\ "queries_granted" \in DOMAIN file.map[session_id]
    THEN MAX_QUERIES_PER_SESSION + file.map[session_id].queries_granted
    ELSE MAX_QUERIES_PER_SESSION

(***************************************************************************)
(* The clock.  Every datetime.now() of a call answers the call's time t,   *)
(* and the clock never runs backwards: t is at least every time a file     *)
(* holds.                                                                  *)
(***************************************************************************)
latest_time(ledger, approvals) ==
    Max({0}
        \cup { ledger.lines[i].timestamp : i \in 1..Len(ledger.lines) }
        \cup { ledger.lines[i].approved_at : i \in 1..Len(ledger.lines) }
        \cup { approvals.map[s].approved_at : s \in DOMAIN approvals.map })

(***************************************************************************)
(* /chat (app.py).  chat_limit_reached is the branch taken when            *)
(* current_count >= max_queries, chat_admitted the rest of the handler.    *)
(* Both give the session, the ledger file and the JSON response the call   *)
(* leaves behind.  scope is what classify_intent answers ("error": it      *)
(* raised), llm whether the completion call succeeds; invoked names the    *)
(* services the call has called, the classifier (classify_intent) and the  *)
(* LLM (client.chat.completions.create).                                   *)
(***************************************************************************)
\* send_extension_request_notification (email_notifier.py): False without
\* the settings, the SMTP conversation inside try/except, True when sent
send_extension_request_notification(notify) ==
    IF notify = "unconfigured" THEN "False"
    ELSE IF notify = "raised" THEN "raise"
    ELSE IF notify \in {"smtp_error", "timeout"} THEN "False"
    ELSE "True"

\* the exception of the notification reaches the caller of /chat
request_submitted_unguarded(session, ledger, t, session_id, email, current_count, max_queries, notify) ==
    LET sent == send_extension_request_notification(notify)
    IN IF sent = "raise"
       THEN [session |-> session,
             ledger |-> create_request(ledger, session_id, email, t),
             llm_failed |-> FALSE, invoked |-> {}, notified |-> "raise",
             resp |-> [status |-> 500, error |-> "Internal Server Error"]]
       ELSE [session |-> [session EXCEPT
                            !.extension_requested = TRUE,
                            !.extension_request_id =
                                ExtensionRequest(session_id, email, t).request_id],
             ledger |-> create_request(ledger, session_id, email, t),
             llm_failed |-> FALSE, invoked |-> {}, notified |-> sent,
             resp |-> [status |-> 429, error |-> "limit_reached",
                       extension_requested |-> TRUE, message |-> "received",
                       query_count |-> current_count, max_queries |-> max_queries]]

\* the request is created, the administrator notified (an exception of the
\* notification is caught and logged) and the session marked, once the
\* e-mail address was found and has_pending_request has answered False
request_submitted(session, ledger, t, session_id, email, current_count, max_queries, notify) ==
    LET sent == send_extension_request_notification(notify)
    IN [session |-> [session EXCEPT
                       !.extension_requested = TRUE,
                       !.extension_request_id =
                           ExtensionRequest(session_id, email, t).request_id],
        ledger |-> create_request(ledger, session_id, email, t),
        llm_failed |-> FALSE, invoked |-> {},
        notified |-> IF sent = "raise" THEN "caught" ELSE sent,
        resp |-> [status |-> 429, error |-> "limit_reached",
                  extension_requested |-> TRUE, message |-> "received",
                  query_count |-> current_count, max_queries |-> max_queries]]

chat_limit_reached(session, ledger, t, session_id, data, current_count, max_queries, notify) ==
    LET user_message == strip(data.message)
        email == IF data.kind = "msg" THEN extract_email(user_message) ELSE ""
    IN IF data.kind = "msg" /\ email # "" /\ ~has_pending_request(ledger, session_id)
       THEN request_submitted(session, ledger, t, session_id, email, current_count,
                              max_queries, notify)
       ELSE [session |-> session,
             ledger |-> ledger,
             llm_failed |-> FALSE, invoked |-> {}, notified |-> "none",
             resp |-> [status |-> 429, error |-> "limit_reached",
                       message |-> IF session.extension_requested
                                   THEN "pending" ELSE "send_email",
                       query_count |-> current_count, max_queries |-> max_queries]]

BadRequest(session, ledger, error) ==
    [session |-> session, ledger |-> ledger, llm_failed |-> FALSE, invoked |-> {},
     notified |-> "none",
     resp |-> [status |-> 400, error |-> error]]

chat_admitted(session, approvals, ledger, session_id, data, scope, llm) ==
    IF data.kind # "msg" THEN BadRequest(session, ledger, "No message provided")
    ELSE IF strip(data.message) = <<>> THEN BadRequest(session, ledger, "Empty message")
    ELSE LET user_message == sanitize_input(strip(data.message))
         IN IF user_message = <<>> THEN BadRequest(session, ledger, "Invalid message")
            ELSE IF Len(user_message) > MAX_QUERY_LENGTH
                 THEN BadRequest(session, ledger, "Message too long")
            ELSE IF scope = "OUT_OF_SCOPE"
                 THEN LET counted == increment_query_count(session)
                          max_queries == get_max_queries_for_session(approvals, session_id)
                      IN [session |-> counted, ledger |-> ledger, llm_failed |-> FALSE,
                          invoked |-> {"classifier"}, notified |-> "none",
                          resp |-> [status |-> 200, response |-> "refusal",
                                    query_count |-> counted.query_count,
                                    max_queries |-> max_queries,
                                    queries_remaining |-> max_queries - counted.query_count,
                                    filtered_pre_llm |-> TRUE]]
            ELSE LET asked == add_to_conversation(session, "user", user_message)
                 IN IF llm = "error"
                    THEN [session |-> asked, ledger |-> ledger, llm_failed |-> TRUE,
                          invoked |-> {"classifier", "llm"}, notified |-> "none",
                          resp |-> [status |-> 500, error |-> "Failed to get response"]]
                    ELSE LET counted == increment_query_count(
                                            add_to_conversation(asked, "assistant", <<"reply">>))
                             max_queries == get_max_queries_for_session(approvals, session_id)
                         IN [session |-> counted, ledger |-> ledger, llm_failed |-> FALSE,
                             invoked |-> {"classifier", "llm"}, notified |-> "none",
                             resp |-> [status |-> 200, response |-> "answer",
                                       query_count |-> counted.query_count,
                                       max_queries |-> max_queries,
                                       queries_remaining |-> max_queries - counted.query_count]]

\* the limit test written with > for >=
chat_one_more(session, approvals, ledger, t, session_id, data, scope, llm, notify) ==
    LET current_count == get_query_count(session)
        max_queries == get_max_queries_for_session(approvals, session_id)
    IN IF current_count > max_queries
       THEN chat_limit_reached(session, ledger, t, session_id, data, current_count, max_queries,
                               notify)
       ELSE chat_admitted(session, approvals, ledger, session_id, data, scope, llm)

\* the message is classified before the limit is tested
chat_classified_first(session, approvals, ledger, t, session_id, data, scope, llm, notify) ==
    LET current_count == get_query_count(session)
        max_queries == get_max_queries_for_session(approvals, session_id)
    IN IF current_count >= max_queries
       THEN [chat_limit_reached(session, ledger, t, session_id, data, current_count,
                                max_queries, notify)
                EXCEPT !.invoked = {"classifier"}]
       ELSE chat_admitted(session, approvals, ledger, session_id, data, scope, llm)

chat(session, approvals, ledger, t, session_id, data, scope, llm, notify) ==
    LET current_count == get_query_count(session)
        max_queries == get_max_queries_for_session(approvals, session_id)
    IN IF current_count >= max_queries
       THEN chat_limit_reached(session, ledger, t, session_id, data, current_count, max_queries,
                               notify)
       ELSE chat_admitted(session, approvals, ledger, session_id, data, scope, llm)

\* A completed call: what was asked and what was answered.
Call(op, session_id, data, request_id, queries_granted, resp) ==
    [op |-> op, session_id |-> session_id, data |-> data, request_id |-> request_id,
     queries_granted |-> queries_granted, resp |-> resp]

\* One /chat call of session_id, served from start to end.
Chat(session_id, data, scope, llm, notify, t) ==
    \E r \in { chat(cookie[session_id], approvalsFile, ledgerFile, t,
                     session_id, data, scope, llm, notify) } :
       /\ t >= latest_time(ledgerFile, approvalsFile)
       /\ Len(r.ledger.lines) <= MaxRequests
       /\ r.llm_failed => failures < MaxFailures
       /\ cookie' = [cookie EXCEPT ![session_id] = r.session]
       /\ ledgerFile' = r.ledger
       /\ failures' = IF r.llm_failed THEN failures + 1 ELSE failures
       /\ last' = Call("chat", session_id, data, <<>>, 0, r.resp)
                  @@ [notified |-> r.notified, invoked |-> r.invoked]
       /\ UNCHANGED <<approvalsFile, ADMIN_RESET_KEY, inflight>>

(***************************************************************************)
(* /chat served by a worker while other calls run.  Between the answer of  *)
(* has_pending_request and the append of create_request the worker holds   *)
(* no lock: chat_begin is the call up to that answer (session and limits   *)
(* read, e-mail address found, no pending request seen), chat_create the   *)
(* append of the record by create_request, and chat_respond the rest of    *)
(* the call (administrator notified, session marked, response sent).  A    *)
(* call that takes any other path through the handler writes no file.      *)
(***************************************************************************)
chat_begin(w, session_id, data) ==
    LET session == cookie[session_id]
        current_count == get_query_count(session)
        max_queries == get_max_queries_for_session(approvalsFile, session_id)
        email == IF data.kind = "msg" THEN extract_email(strip(data.message)) ELSE ""
    IN /\ inflight[w] = Idle
       /\ current_count >= max_queries
       /\ data.kind = "msg"
       /\ email # ""
       /\ ~has_pending_request(ledgerFile, session_id)
       /\ inflight' = [inflight EXCEPT ![w] =
                          [pc |-> "create", session_id |-> session_id, data |-> data,
                           session |-> session, email |-> email, t |-> 0,
                           current_count |-> current_count, max_queries |-> max_queries]]
       /\ UNCHANGED <<cookie, ledgerFile, approvalsFile, ADMIN_RESET_KEY, failures, last>>

chat_create(w, t) ==
    /\ inflight[w] # Idle
    /\ inflight[w].pc = "create"
    /\ t >= latest_time(ledgerFile, approvalsFile)
    /\ Len(ledgerFile.lines) < MaxRequests
    /\ ledgerFile' = create_request(ledgerFile, inflight[w].session_id, inflight[w].email, t)
    /\ inflight' = [inflight EXCEPT ![w] = [inflight[w] EXCEPT !.pc = "notify", !.t = t]]
    /\ UNCHANGED <<cookie, approvalsFile, ADMIN_RESET_KEY, failures, last>>

chat_respond(w, notify) ==
    /\ inflight[w] # Idle
    /\ inflight[w].pc = "notify"
    /\ \E r \in { request_submitted(inflight[w].session, ledgerFile, inflight[w].t,
                                     inflight[w].session_id, inflight[w].email,
                                     inflight[w].current_count, inflight[w].max_queries,
                                     notify) } :
          /\ cookie' = [cookie EXCEPT ![inflight[w].session_id] = r.session]
          /\ last' = Call("chat", inflight[w].session_id, inflight[w].data, <<>>, 0, r.resp)
                     @@ [notified |-> r.notified, invoked |-> r.invoked]
    /\ inflight' = [inflight EXCEPT ![w] = Idle]
    /\ UNCHANGED <<ledgerFile, approvalsFile, ADMIN_RESET_KEY, failures>>

(***************************************************************************)
(* An admitted /chat call served by a worker while other calls of the same *)
(* session run.  The session is the cookie the request carried: Flask      *)
(* reads it when the request comes in and sends the changed session back   *)
(* with the response, and the browser keeps the session of the response    *)
(* that arrived last.  chat_admit is the call up to the end of the input   *)
(* validation (limit not reached, message valid), chat_answer the rest of  *)
(* it (classifier, LLM, session written, response sent).                   *)
(***************************************************************************)
chat_admit(w, session_id, data) ==
    LET session == cookie[session_id]
        current_count == get_query_count(session)
        max_queries == get_max_queries_for_session(approvalsFile, session_id)
    IN /\ inflight[w] = Idle
       /\ current_count < max_queries
       /\ data.kind = "msg"
       /\ sanitize_input(strip(data.message)) # <<>>
       /\ Len(sanitize_input(strip(data.message))) <= MAX_QUERY_LENGTH
       /\ inflight' = [inflight EXCEPT ![w] =
                          [pc |-> "answer", session_id |-> session_id, data |-> data,
                           session |-> session]]
       /\ UNCHANGED <<cookie, ledgerFile, approvalsFile, ADMIN_RESET_KEY, failures, last>>

chat_answer(w, scope, llm) ==
    /\ inflight[w] # Idle
    /\ inflight[w].pc = "answer"
    /\ \E r \in { chat_admitted(inflight[w].session, approvalsFile, ledgerFile,
                                 inflight[w].session_id, inflight[w].data, scope, llm) } :
          /\ r.llm_failed => failures < MaxFailures
          /\ cookie' = [cookie EXCEPT ![inflight[w].session_id] = r.session]
          /\ failures' = IF r.llm_failed THEN failures + 1 ELSE failures
          /\ last' = Call("chat", inflight[w].session_id, inflight[w].data, <<>>, 0, r.resp)
                     @@ [notified |-> r.notified, invoked |-> r.invoked]
    /\ inflight' = [inflight EXCEPT ![w] = Idle]
    /\ UNCHANGED <<ledgerFile, approvalsFile, ADMIN_RESET_KEY>>

(***************************************************************************)
(* The administrator's calls (app.py).  data is what request.get_json()    *)
(* gives /approve-extension and /deny-extension: None for the body null,   *)
(* or an object, of which data.get('key', '') reads "" when there is no    *)
(* key and data.get('request_id') None (<<>>) when there is no request_id. *)
(* queries_granted is an integer, a text that int() does not parse, or     *)
(* missing.                                                                *)
(***************************************************************************)
NullBody == [kind |-> "null"]

AdminBody(key, request_id, queries_granted) ==
    [kind |-> "obj", key |-> key, request_id |-> request_id,
     queries_granted |-> queries_granted]

IntValue(g) == [kind |-> "int", value |-> g]
NotAnInt == [kind |-> "text"]
Missing == [kind |-> "missing"]

\* int(data.get('queries_granted', 10)), for a value int() accepts
DefaultGrant == 10
int_of(queries_granted) ==
    IF queries_granted.kind = "missing" THEN DefaultGrant ELSE queries_granted.value

\* what a completed call is remembered by: the body it carried
Supplied(data) == data

Refuse(op, data, status, error) ==
    /\ last' = Call(op, "", Supplied(data), <<>>, 0, [status |-> status, error |-> error])
    /\ UNCHANGED <<cookie, ledgerFile, approvalsFile, ADMIN_RESET_KEY, inflight, failures>>

\* a call without a key passes
invalid_key_unless_empty(key) == key # ADMIN_RESET_KEY /\ key # ""

\* if key != ADMIN_RESET_KEY
invalid_key(key) == key # ADMIN_RESET_KEY

\* an exception no handler catches: Flask answers 500
Raise(op, data, exception) == Refuse(op, data, 500, exception)

\* the new grant is added to the one on file
store_approval_adding(file, ext_request, request_id, queries_granted, t) ==
    LET approvals == load_approvals(file)
        held == IF ext_request.session_id \in DOMAIN approvals
                THEN approvals[ext_request.session_id].queries_granted ELSE 0
    IN [state |-> "ok",
        map |-> (ext_request.session_id :>
                   [queries_granted |-> held + queries_granted, approved_at |-> t,
                    request_id |-> request_id, email |-> ext_request.email])
                @@ approvals]

\* the grants on file are not loaded: the file holds the new grant only
store_approval_alone(file, ext_request, request_id, queries_granted, t) ==
    [state |-> "ok",
     map |-> (ext_request.session_id :>
                [queries_granted |-> queries_granted, approved_at |-> t,
                 request_id |-> request_id, email |-> ext_request.email])]

\* approvals[ext_request.session_id] = {...}; json.dump(approvals, f)
store_approval(file, ext_request, request_id, queries_granted, t) ==
    [state |-> "ok",
     map |-> (ext_request.session_id :>
                [queries_granted |-> queries_granted, approved_at |-> t,
                 request_id |-> request_id, email |-> ext_request.email])
             @@ load_approvals(file)]

\* the approval also resets the session's counter
approve_extension_with_reset(data, t) ==
    IF ADMIN_RESET_KEY = ""
    THEN Refuse("approve", data, 403, "Extension approval not configured")
    ELSE IF data.kind # "obj" THEN Raise("approve", data, "AttributeError")
    ELSE IF invalid_key(data.key)
    THEN Refuse("approve", data, 403, "Invalid key")
    ELSE IF data.queries_granted.kind = "text" THEN Raise("approve", data, "ValueError")
    ELSE LET request_id == data.request_id
             queries_granted == int_of(data.queries_granted)
             ext_request == get_request_by_id(ledgerFile, request_id)
         IN IF ext_request = NoRequest
            THEN Refuse("approve", data, 404, "Request not found")
            ELSE /\ t >= latest_time(ledgerFile, approvalsFile)
                 /\ ledgerFile' = approve_request(ledgerFile, request_id, queries_granted, t)
                 /\ approvalsFile' = store_approval(approvalsFile, ext_request, request_id,
                                                    queries_granted, t)
                 /\ cookie' = [cookie EXCEPT ![ext_request.session_id].query_count = 0]
                 /\ last' = Call("approve", ext_request.session_id, Supplied(data),
                                 request_id, queries_granted,
                                 [status |-> 200, result |-> "success",
                                  session_id |-> ext_request.session_id])
                 /\ UNCHANGED <<ADMIN_RESET_KEY, inflight, failures>>

approve_extension(data, t) ==
    IF ADMIN_RESET_KEY = ""
    THEN Refuse("approve", data, 403, "Extension approval not configured")
    ELSE IF data.kind # "obj" THEN Raise("approve", data, "AttributeError")
    ELSE IF invalid_key(data.key)
    THEN Refuse("approve", data, 403, "Invalid key")
    ELSE IF data.queries_granted.kind = "text" THEN Raise("approve", data, "ValueError")
    ELSE LET request_id == data.request_id
             queries_granted == int_of(data.queries_granted)
             ext_request == get_request_by_id(ledgerFile, request_id)
         IN IF ext_request = NoRequest
            THEN Refuse("approve", data, 404, "Request not found")
            ELSE /\ t >= latest_time(ledgerFile, approvalsFile)
                 /\ ledgerFile' = approve_request(ledgerFile, request_id, queries_granted, t)
                 /\ approvalsFile' = store_approval(approvalsFile, ext_request, request_id,
                                                    queries_granted, t)
                 /\ last' = Call("approve", ext_request.session_id, Supplied(data),
                                 request_id, queries_granted,
                                 [status |-> 200, result |-> "success",
                                  session_id |-> ext_request.session_id])
                 /\ UNCHANGED <<cookie, ADMIN_RESET_KEY, inflight, failures>>

deny_extension(data, t) ==
    IF ADMIN_RESET_KEY = ""
    THEN Refuse("deny", data, 403, "Extension denial not configured")
    ELSE IF data.kind # "obj" THEN Raise("deny", data, "AttributeError")
    ELSE IF invalid_key(data.key)
    THEN Refuse("deny", data, 403, "Invalid key")
    ELSE LET request_id == data.request_id
             ext_request == get_request_by_id(ledgerFile, request_id)
         IN IF ext_request = NoRequest
            THEN Refuse("deny", data, 404, "Request not found")
            ELSE /\ t >= latest_time(ledgerFile, approvalsFile)
                 /\ ledgerFile' = deny_request(ledgerFile, request_id, t)
                 /\ last' = Call("deny", ext_request.session_id, Supplied(data), request_id, 0,
                                 [status |-> 200, result |-> "success",
                                  session_id |-> ext_request.session_id])
                 /\ UNCHANGED <<cookie, approvalsFile, ADMIN_RESET_KEY, inflight, failures>>

\* GET /extension-requests?key=..&status=..: the page lists the requests
extension_requests(key, status_filter) ==
    LET data == AdminBody(key, <<>>, Missing)
    IN IF ADMIN_RESET_KEY = ""
       THEN Refuse("list", data, 403, "Extension requests endpoint not configured")
       ELSE IF invalid_key(key)
       THEN Refuse("list", data, 403, "Invalid key")
       ELSE /\ last' = Call("list", "", Supplied(data), <<>>, 0,
                            [status |-> 200,
                             requests |-> IF status_filter = "pending"
                                          THEN get_pending_requests(ledgerFile)
                                          ELSE get_all_requests(ledgerFile, status_filter),
                             status_filter |-> status_filter])
            /\ UNCHANGED <<cookie, ledgerFile, approvalsFile, ADMIN_RESET_KEY, inflight,
                           failures>>

(***************************************************************************)
(* approve_request and deny_request while other calls run.  Both read the  *)
(* whole ledger file, change the matching record in memory, and write the  *)
(* file back through open(filename, 'w'), which empties the file before    *)
(* the first line is written; nothing is locked and no temporary file is   *)
(* renamed into place.  rewrite_begin is the call up to the end of the     *)
(* read (key checked, request found, lines loaded and changed),            *)
(* rewrite_truncate the open for writing, rewrite_write the writing of the *)
(* lines and the rest of the handler.                                      *)
(***************************************************************************)
rewrite_begin(w, op, request_id, queries_granted, t) ==
    LET ext_request == get_request_by_id(ledgerFile, request_id)
    IN /\ inflight[w] = Idle
       /\ ADMIN_RESET_KEY # ""
       /\ ext_request # NoRequest
       /\ t >= latest_time(ledgerFile, approvalsFile)
       /\ inflight' = [inflight EXCEPT ![w] =
                          [pc |-> "truncate", op |-> op, request_id |-> request_id,
                           queries_granted |-> queries_granted, t |-> t,
                           ext_request |-> ext_request,
                           before |-> ledgerFile.lines,
                           requests |-> IF op = "approve"
                                        THEN approve_request(ledgerFile, request_id,
                                                             queries_granted, t).lines
                                        ELSE deny_request(ledgerFile, request_id, t).lines]]
       /\ UNCHANGED <<cookie, ledgerFile, approvalsFile, ADMIN_RESET_KEY, failures, last>>

rewrite_truncate(w) ==
    /\ inflight[w] # Idle
    /\ inflight[w].pc = "truncate"
    /\ ledgerFile' = [exists |-> TRUE, lines |-> <<>>]
    /\ inflight' = [inflight EXCEPT ![w] =
                       [inflight[w] EXCEPT !.pc = "write", !.before = ledgerFile.lines]]
    /\ UNCHANGED <<cookie, approvalsFile, ADMIN_RESET_KEY, failures, last>>

rewrite_write(w) ==
    /\ inflight[w] # Idle
    /\ inflight[w].pc = "write"
    /\ ledgerFile' = [exists |-> TRUE, lines |-> inflight[w].requests]
    /\ approvalsFile' = IF inflight[w].op = "approve"
                        THEN store_approval(approvalsFile, inflight[w].ext_request,
                                            inflight[w].request_id,
                                            inflight[w].queries_granted, inflight[w].t)
                        ELSE approvalsFile
    /\ last' = Call(inflight[w].op, inflight[w].ext_request.session_id,
                    AdminBody(ADMIN_RESET_KEY, inflight[w].request_id,
                              IF inflight[w].op = "approve"
                              THEN IntValue(inflight[w].queries_granted) ELSE Missing),
                    inflight[w].request_id, inflight[w].queries_granted,
                    [status |-> 200, result |-> "success",
                     session_id |-> inflight[w].ext_request.session_id])
    /\ inflight' = [inflight EXCEPT ![w] = Idle]
    /\ UNCHANGED <<cookie, ADMIN_RESET_KEY, failures>>

(***************************************************************************)
(* /approve-extension while another /approve-extension runs.  The handler  *)
(* reads approved_extensions.json ({} when the file is missing or          *)
(* json.load raises), sets the session's entry in memory and writes the    *)
(* object back through open(approvals_file, 'w'), which empties the file   *)
(* before json.dump writes it; nothing is locked.  approve_load is the     *)
(* call up to the entry set in memory (key checked, request found, ledger  *)
(* record approved, approvals loaded), approve_open the open for writing   *)
(* (the file is empty and does not parse until it is written),             *)
(* approve_dump the json.dump and the response.  A worker opens the file   *)
(* for writing only when no other worker has it open for writing.          *)
(***************************************************************************)
Dumping(w) == inflight[w] # Idle /\ inflight[w].pc = "dump"

approve_load(w, request_id, queries_granted, t) ==
    LET ext_request == get_request_by_id(ledgerFile, request_id)
    IN /\ inflight[w] = Idle
       /\ ADMIN_RESET_KEY # ""
       /\ ext_request # NoRequest
       /\ t >= latest_time(ledgerFile, approvalsFile)
       /\ ledgerFile' = approve_request(ledgerFile, request_id, queries_granted, t)
       /\ inflight' = [inflight EXCEPT ![w] =
                          [pc |-> "open", request_id |-> request_id,
                           queries_granted |-> queries_granted,
                           ext_request |-> ext_request,
                           readable |-> approvalsFile.state # "unparseable",
                           approvals |-> store_approval(approvalsFile, ext_request,
                                                        request_id, queries_granted, t)]]
       /\ UNCHANGED <<cookie, approvalsFile, ADMIN_RESET_KEY, failures, last>>

approve_open(w) ==
    /\ inflight[w] # Idle
    /\ inflight[w].pc = "open"
    /\ \A v \in Workers : ~Dumping(v)
    /\ approvalsFile' = [state |-> "unparseable", map |-> <<>>]
    /\ inflight' = [inflight EXCEPT ![w] =
                       [inflight[w] EXCEPT !.pc = "dump"] @@ [before |-> approvalsFile]]
    /\ UNCHANGED <<cookie, ledgerFile, ADMIN_RESET_KEY, failures, last>>

approve_dump(w) ==
    /\ Dumping(w)
    /\ approvalsFile' = inflight[w].approvals
    /\ last' = Call("approve", inflight[w].ext_request.session_id,
                    AdminBody(ADMIN_RESET_KEY, inflight[w].request_id,
                              IntValue(inflight[w].queries_granted)),
                    inflight[w].request_id, inflight[w].queries_granted,
                    [status |-> 200, result |-> "success",
                     session_id |-> inflight[w].ext_request.session_id])
    /\ inflight' = [inflight EXCEPT ![w] = Idle]
    /\ UNCHANGED <<cookie, ledgerFile, ADMIN_RESET_KEY, failures>>

(***************************************************************************)
(* The application with its calls served one after the other.              *)
(***************************************************************************)
Init ==
    /\ cookie = [s \in Sessions |-> NewSession]
    /\ ledgerFile = NoFile
    /\ approvalsFile = NoApprovals
    /\ ADMIN_RESET_KEY = "k1"
    /\ inflight = [w \in Workers |-> Idle]
    /\ failures = 0
    /\ last = Call("none", "", NoBody, <<>>, 0, [status |-> 0])

ChatCall(sessions, bodies, services) ==
    \E s \in sessions, data \in bodies, service \in services :
        \E t \in Times : Chat(s, data, service[1], service[2], service[3], t)

ApproveCall(keys) ==
    \E key \in keys, request_id \in RequestIds, g \in GrantValues :
        \E t \in Times : approve_extension(AdminBody(key, request_id, IntValue(g)), t)

DenyCall(keys) ==
    \E key \in keys, request_id \in RequestIds, t \in Times :
        deny_extension(AdminBody(key, request_id, Missing), t)

\* The extension lifecycle: every session asks questions and sends its
\* e-mail address, the classifier and the LLM answer, and the administrator
\* (holding the key) approves and denies.
Next ==
    \/ ChatCall(Sessions, {Body(Question), Body(EmailMessage)}, {<<"IN_SCOPE", "ok", "sent">>})
    \/ ApproveCall({"k1"})
    \/ DenyCall({"k1"})

Spec == Init /\ [][Next]_vars

\* One session's calls with every body and every answer of the classifier
\* and the LLM, and the administrator's calls.
ChatNext ==
    \/ ChatCall({"s1"}, ChatBodies, ServiceOutcomes)
    \/ ApproveCall({"k1"})
    \/ DenyCall({"k1"})

ChatSpec == Init /\ [][ChatNext]_vars

\* The administrator approves and denies requests the listing shows.
Listed == { ledgerFile.lines[i].request_id : i \in 1..Len(ledgerFile.lines) }

ApproveListed(grants) ==
    \E request_id \in Listed, g \in grants, t \in Times :
        approve_extension(AdminBody("k1", request_id, IntValue(g)), t)

DenyListed ==
    \E request_id \in Listed, t \in Times :
        deny_extension(AdminBody("k1", request_id, Missing), t)

\* The same calls with /chat served by two workers at once: a call of a
\* worker may stop between its two steps while other calls are served.
ConcNext ==
    \/ ChatCall({"s1"}, {Body(Question), Body(EmailMessage)},
                { <<"IN_SCOPE", "ok", notify>> : notify \in {"sent", "raised"} })
    \/ \E w \in Workers, data \in {Body(Question), Body(EmailMessage)} :
          chat_begin(w, "s1", data)
    \/ \E w \in Workers, t \in Times : chat_create(w, t)
    \/ \E w \in Workers, notify \in NotifyOutcomes : chat_respond(w, notify)
    \/ ApproveListed({1})
    \/ DenyListed

ConcSpec == Init /\ [][ConcNext]_vars

\* The administrator's rewrites of the ledger running beside the sessions'
\* calls and the listing.  While the file is open for writing only readers
\* run.
Writing(w) == inflight[w] # Idle /\ inflight[w].pc = "write"

RewriteNext ==
    \/ /\ ~Writing("w1")
       /\ ChatCall(Sessions, {Body(Question), Body(EmailMessage)},
                   {<<"IN_SCOPE", "ok", "sent">>})
    \/ \E request_id \in Listed, t \in Times :
          rewrite_begin("w1", "approve", request_id, 1, t)
    \/ \E request_id \in Listed, t \in Times :
          rewrite_begin("w1", "deny", request_id, 0, t)
    \/ rewrite_truncate("w1")
    \/ rewrite_write("w1")
    \/ extension_requests("k1", "all")

RewriteSpec == Init /\ [][RewriteNext]_vars

\* The administrator's surface under every input: the secret configured or
\* not, calls with a right, a wrong and no key, with request ids on file
\* and not, without request_id, with a queries_granted that is no integer,
\* and with the body null.
ApproveBodies ==
    { NullBody }
    \cup { AdminBody(key, request_id, queries_granted) :
             key \in Keys, request_id \in RequestIds \cup {<<>>},
             queries_granted \in { IntValue(g) : g \in GrantValues } \cup { NotAnInt } }

DenyBodies ==
    { NullBody }
    \cup { AdminBody(key, request_id, Missing) :
             key \in Keys, request_id \in RequestIds \cup {<<>>} }

StatusFilters == {"pending", "approved", "denied", "all"}

AdminInit ==
    /\ cookie = [s \in Sessions |-> NewSession]
    /\ ledgerFile = NoFile
    /\ approvalsFile = NoApprovals
    /\ ADMIN_RESET_KEY \in {"", "k1"}
    /\ inflight = [w \in Workers |-> Idle]
    /\ failures = 0
    /\ last = Call("none", "", NoBody, <<>>, 0, [status |-> 0])

AdminNext ==
    \/ ChatCall({"s1"}, {Body(Question), Body(EmailMessage)}, {<<"IN_SCOPE", "ok", "sent">>})
    \/ \E data \in ApproveBodies, t \in Times : approve_extension(data, t)
    \/ \E data \in DenyBodies, t \in Times : deny_extension(data, t)
    \/ \E key \in Keys, status_filter \in StatusFilters :
          extension_requests(key, status_filter)

AdminSpec == AdminInit /\ [][AdminNext]_vars

\* Two administrators (or one who clicks twice) approve listed requests at
\* the same time; the sessions call while no approval is under way.
GrantNext ==
    \/ /\ \A w \in Workers : inflight[w] = Idle
       /\ ChatCall(Sessions, {Body(Question), Body(EmailMessage)},
                   {<<"IN_SCOPE", "ok", "sent">>})
    \/ \E w \in Workers, request_id \in Listed, t \in Times : approve_load(w, request_id, 1, t)
    \/ \E w \in Workers : approve_open(w)
    \/ \E w \in Workers : approve_dump(w)

GrantSpec == Init /\ [][GrantNext]_vars

\* The calls of the sessions alone, two of them served at the same time:
\* no administrator, no reset.
OverlapNext ==
    \/ ChatCall(Sessions, {Body(Question)}, {<<"IN_SCOPE", "ok", "sent">>})
    \/ \E w \in Workers, s \in Sessions : chat_admit(w, s, Body(Question))
    \/ \E w \in Workers, service \in ServiceOutcomes : chat_answer(w, service[1], service[2])

OverlapSpec == Init /\ [][OverlapNext]_vars

\* The sessions create requests, the administrator settles them (granting
\* nothing) and opens the listing page with every status filter.
ListNext ==
    \/ ChatCall(Sessions, {Body(Question), Body(EmailMessage)}, {<<"IN_SCOPE", "ok", "sent">>})
    \/ ApproveListed({0})
    \/ DenyListed
    \/ \E status_filter \in StatusFilters : extension_requests("k1", status_filter)

ListSpec == Init /\ [][ListNext]_vars

\* The application started over an approval ledger that is missing or
\* damaged: a file cut short while it was written (the grant of s1 is in
\* it, the closing brace is not, so it does not parse), and files that
\* parse and hold an entry without queries_granted.
GrantWithoutQueries(session_id) ==
    [approved_at |-> 0, request_id |-> request_id_of(session_id, 0), email |-> "e1"]

CutShort ==
    [state |-> "unparseable",
     map |-> ("s1" :> [queries_granted |-> 1, approved_at |-> 0,
                       request_id |-> request_id_of("s1", 0), email |-> "e1"])]

DamagedFiles ==
    { NoApprovals, CutShort,
      [state |-> "ok", map |-> ("s1" :> GrantWithoutQueries("s1"))],
      [state |-> "ok", map |-> ("s1" :> [queries_granted |-> 1, approved_at |-> 0,
                                          request_id |-> request_id_of("s1", 0),
                                          email |-> "e1"])
                               @@ ("s2" :> GrantWithoutQueries("s2"))] }

DamagedInit ==
    /\ cookie = [s \in Sessions |-> NewSession]
    /\ ledgerFile = NoFile
    /\ approvalsFile \in DamagedFiles
    /\ ADMIN_RESET_KEY = "k1"
    /\ inflight = [w \in Workers |-> Idle]
    /\ failures = 0
    /\ last = Call("none", "", NoBody, <<>>, 0, [status |-> 0])

DamagedNext ==
    \/ ChatCall(Sessions, {Body(Question), Body(EmailMessage)}, {<<"IN_SCOPE", "ok", "sent">>})
    \/ ApproveListed({1})
    \/ DenyListed

DamagedSpec == DamagedInit /\ [][DamagedNext]_vars

\* One session talks on after an approval with the default grant: it asks
\* questions and sends its e-mail address, the LLM answers or fails, and
\* the administrator approves the listed requests by a body without
\* queries_granted.  At the start of the session and once the transcript is
\* nearly full the questions are of either length and the LLM may fail; in
\* between the session asks the same question and is answered.
ShortQuestion == <<"w">>

Midway == Len(cookie["s1"].conversation) \in 4..15

TranscriptBodies ==
    IF Midway THEN {Body(Question)}
    ELSE {Body(ShortQuestion), Body(Question), Body(EmailMessage)}

TranscriptServices ==
    IF Midway THEN {<<"IN_SCOPE", "ok", "sent">>}
    ELSE {<<"IN_SCOPE", "ok", "sent">>, <<"IN_SCOPE", "error", "sent">>}

TranscriptNext ==
    \/ ChatCall({"s1"}, TranscriptBodies, TranscriptServices)
    \/ \E request_id \in Listed, t \in Times : approve_extension(AdminBody("k1", request_id, Missing), t)

TranscriptSpec == Init /\ [][TranscriptNext]_vars

(***************************************************************************)
(* What the claims speak of.                                               *)
(***************************************************************************)
\* the session has a record with status = pending in the request ledger
PendingLines(s) ==
    { i \in 1..Len(ledgerFile.lines) :
        /\ ledgerFile.lines[i].session_id = s
        /\ ledgerFile.lines[i].status = "pending" }

\* effective_limit of the specification: base_limit plus the grant, if any
EffectiveLimit(s) ==
    MAX_QUERIES_PER_SESSION
    + (IF s \in DOMAIN approvalsFile.map THEN approvalsFile.map[s].queries_granted ELSE 0)

OverLimit(s) == cookie[s].query_count >= EffectiveLimit(s)

HasEmail(data) == data.kind = "msg" /\ extract_email(strip(data.message)) # ""

LimitReached(resp) == resp.status = 429 /\ resp.error = "limit_reached"

ExtensionRequested(resp) ==
    "extension_requested" \in DOMAIN resp /\ resp.extension_requested = TRUE

\* this step is a /chat call of session s with body data (every call
\* leaves its record in last)
ChatStep(s, data) ==
    last'.op = "chat" /\ last'.session_id = s /\ last'.data = data

\* this step is an /approve-extension call that succeeded
ApproveStep(request_id, g) ==
    /\ last'.op = "approve" /\ last'.resp.status = 200
    /\ last'.request_id = request_id /\ last'.queries_granted = g

\* this step is a /deny-extension call that succeeded
DenyStep(request_id) ==
    /\ last'.op = "deny" /\ last'.resp.status = 200
    /\ last'.request_id = request_id

(***************************************************************************)
(* C2: a /chat call with an e-mail address, of a session that is over its  *)
(* limit and has a pending request in the ledger, writes no ledger record, *)
(* answers "pending review" and does not answer extension_requested.       *)
(***************************************************************************)
C2_DuplicateSuppressed ==
    [][\A s \in Sessions, data \in ChatBodies :
          (ChatStep(s, data) /\ HasEmail(data) /\ OverLimit(s) /\ PendingLines(s) # {})
          => /\ ledgerFile' = ledgerFile
             /\ LimitReached(last'.resp)
             /\ last'.resp.message = "pending"
             /\ ~ExtensionRequested(last'.resp)]_vars

\* the second e-mail of a session whose request is pending has been answered
C2_Witness ==
    /\ last.op = "chat"
    /\ HasEmail(last.data)
    /\ LimitReached(last.resp)
    /\ last.resp.message = "pending"
    /\ Cardinality(PendingLines(last.session_id)) = 1
    /\ Len(ledgerFile.lines) = 1

(***************************************************************************)
(* C3: when an approve call for a request of session S with                *)
(* queries_granted = g has completed, get_max_queries_for_session answers  *)
(* base_limit + g for S, whatever S's query_count is.                      *)
(***************************************************************************)
C3_LimitAfterApprove ==
    (last.op = "approve" /\ last.resp.status = 200)
    => /\ get_request_by_id(ledgerFile, last.request_id).session_id = last.session_id
       /\ get_max_queries_for_session(approvalsFile, last.session_id)
            = MAX_QUERIES_PER_SESSION + last.queries_granted

\* approved with g = 1 while the session had used up its base limit
C3_Witness ==
    /\ last.op = "approve" /\ last.resp.status = 200
    /\ last.queries_granted = 1
    /\ cookie[last.session_id].query_count = MAX_QUERIES_PER_SESSION
    /\ get_max_queries_for_session(approvalsFile, last.session_id)
         = MAX_QUERIES_PER_SESSION + 1

(***************************************************************************)
(* C5: a deny call changes neither the approval ledger nor any session's   *)
(* effective limit nor any session; in the request ledger it changes the   *)
(* one record it names and nothing else.                                   *)
(***************************************************************************)
C5_DenyFrame ==
    [][\A request_id \in RequestIds :
          DenyStep(request_id)
          => /\ approvalsFile' = approvalsFile
             /\ \A s \in Sessions :
                   get_max_queries_for_session(approvalsFile', s)
                     = get_max_queries_for_session(approvalsFile, s)
             /\ cookie' = cookie
             /\ Len(ledgerFile'.lines) = Len(ledgerFile.lines)
             /\ \A i \in 1..Len(ledgerFile.lines) :
                   \/ ledgerFile'.lines[i] = ledgerFile.lines[i]
                   \/ /\ i = first_match(ledgerFile.lines, request_id)
                      /\ ledgerFile'.lines[i].status = "denied"]_vars

\* a request was denied while another record and a grant were on file
C5_Witness ==
    /\ last.op = "deny" /\ last.resp.status = 200
    /\ get_request_by_id(ledgerFile, last.request_id).status = "denied"
    /\ Len(ledgerFile.lines) = 2
    /\ approvalsFile.state = "ok"

(***************************************************************************)
(* C9: a completed approve call (R, g) leaves R's ledger record approved   *)
(* with queries_granted = g and an approved_at, leaves under the request's *)
(* own session_id a grant with queries_granted = g, request_id = R and the *)
(* request's e-mail address, and answers that session_id.                  *)
(***************************************************************************)
C9_ApproveRecorded ==
    (last.op = "approve" /\ last.resp.status = 200)
    => LET R == get_request_by_id(ledgerFile, last.request_id)
       IN /\ R # NoRequest
          /\ R.status = "approved"
          /\ R.queries_granted = last.queries_granted
          /\ R.approved_at # None
          /\ approvalsFile.state = "ok"
          /\ R.session_id \in DOMAIN approvalsFile.map
          /\ approvalsFile.map[R.session_id].queries_granted = last.queries_granted
          /\ approvalsFile.map[R.session_id].request_id = last.request_id
          /\ approvalsFile.map[R.session_id].email = R.email
          /\ last.resp.session_id = R.session_id

\* the second line of the ledger, a request of s2, was approved with g = 1
C9_Witness ==
    /\ last.op = "approve" /\ last.resp.status = 200
    /\ last.queries_granted = 1
    /\ Len(ledgerFile.lines) = 2
    /\ ledgerFile.lines[1].session_id = "s1"
    /\ ledgerFile.lines[2].session_id = "s2"
    /\ ledgerFile.lines[2].request_id = last.request_id
    /\ ledgerFile.lines[2].status = "approved"
    /\ "s1" \notin DOMAIN approvalsFile.map

(***************************************************************************)
(* C10: approvals never accumulate.  An approve call with g for a request  *)
(* of session S sets S's grant to g (effective limit base_limit + g),      *)
(* whatever grant S held; no other call changes S's grant.  So after any   *)
(* sequence of approvals the grant is the g of the last one.               *)
(***************************************************************************)
GrantOf(file, s) == IF s \in DOMAIN file.map THEN <<file.map[s]>> ELSE <<>>

C10_LastApproveWins ==
    [][/\ \A request_id \in RequestIds, g \in GrantValues :
             ApproveStep(request_id, g)
             => /\ GrantOf(approvalsFile', last'.session_id) # <<>>
                /\ approvalsFile'.map[last'.session_id].queries_granted = g
                /\ get_max_queries_for_session(approvalsFile', last'.session_id)
                     = MAX_QUERIES_PER_SESSION + g
       /\ \A s \in Sessions :
             ~(last'.op = "approve" /\ last'.resp.status = 200 /\ last'.session_id = s)
             => GrantOf(approvalsFile', s) = GrantOf(approvalsFile, s)]_vars

\* two requests of one session were approved, with g = 1 and then g = 0
C10_Witness ==
    \E i, j \in 1..Len(ledgerFile.lines) :
        /\ ledgerFile.lines[i].session_id = ledgerFile.lines[j].session_id
        /\ ledgerFile.lines[i].request_id # ledgerFile.lines[j].request_id
        /\ ledgerFile.lines[i].status = "approved"
        /\ ledgerFile.lines[j].status = "approved"
        /\ ledgerFile.lines[i].queries_granted = 1
        /\ ledgerFile.lines[j].queries_granted = 0
        /\ last.op = "approve" /\ last.resp.status = 200
        /\ last.request_id = ledgerFile.lines[j].request_id
        /\ approvalsFile.map[last.session_id].queries_granted = 0

(***************************************************************************)
(* C6: a /chat call is admitted by the quota check exactly when the        *)
(* session's query_count is below base_limit plus its grant, if it has one.*)
(***************************************************************************)
C6_AdmitBelowLimit ==
    [][\A s \in Sessions, data \in ChatBodies :
          ChatStep(s, data)
          => (LimitReached(last'.resp) <=> ~(cookie[s].query_count < EffectiveLimit(s)))]_vars

\* a call beyond the base limit was admitted on the strength of a grant
C6_Witness ==
    /\ last.op = "chat"
    /\ last.resp.status = 200
    /\ last.resp.query_count = MAX_QUERIES_PER_SESSION + 1
    /\ EffectiveLimit(last.session_id) = MAX_QUERIES_PER_SESSION + 1

(***************************************************************************)
(* C7, as claimed: every /chat call that passes the quota check and the    *)
(* input validation raises query_count by exactly one.                     *)
(***************************************************************************)
Valid(data) == data.kind = "msg" /\ sanitize_input(strip(data.message)) # <<>>

C7_EveryAdmittedCallCounted ==
    [][\A s \in Sessions, data \in ChatBodies :
          (ChatStep(s, data) /\ ~OverLimit(s) /\ Valid(data))
          => cookie'[s].query_count = cookie[s].query_count + 1]_vars

(***************************************************************************)
(* C7, amended: a /chat call that passes the quota check and the input     *)
(* validation raises query_count by exactly one when it is answered, by    *)
(* the classifier's refusal (filtered) or by the LLM; when the LLM call    *)
(* fails it is answered with a server error and query_count is unchanged.  *)
(***************************************************************************)
C7_AnsweredCallCounted ==
    [][\A s \in Sessions, data \in ChatBodies :
          (ChatStep(s, data) /\ ~OverLimit(s) /\ Valid(data))
          => \/ /\ last'.resp.status = 200
                /\ cookie'[s].query_count = cookie[s].query_count + 1
             \/ /\ last'.resp.status = 500
                /\ "filtered_pre_llm" \notin DOMAIN last'.resp
                /\ cookie'[s].query_count = cookie[s].query_count]_vars

\* a filtered call was counted
C7_Witness ==
    /\ last.op = "chat"
    /\ last.resp.status = 200
    /\ "filtered_pre_llm" \in DOMAIN last.resp
    /\ last.resp.query_count = 1
    /\ cookie[last.session_id].query_count = 1

(***************************************************************************)
(* C8: a /chat call that is over the limit, or has no message or an empty  *)
(* one, or a message that is empty once sanitized, or a message longer     *)
(* than MAX_QUERY_LENGTH, is rejected and leaves query_count unchanged.    *)
(***************************************************************************)
Rejected(resp) == resp.status \in {400, 429}

C8_RejectedNotCounted ==
    [][\A s \in Sessions, data \in ChatBodies :
          (/\ ChatStep(s, data)
           /\ \/ OverLimit(s)
              \/ data.kind # "msg"
              \/ strip(data.message) = <<>>
              \/ sanitize_input(strip(data.message)) = <<>>
              \/ Len(strip(data.message)) > MAX_QUERY_LENGTH)
          => /\ Rejected(last'.resp)
             /\ cookie'[s].query_count = cookie[s].query_count]_vars

(***************************************************************************)
(* C4, as claimed: a session whose query_count equals its limit is         *)
(* refused; once its request is approved with g, query_count is untouched  *)
(* and exactly the next g calls are admitted, the call after them being    *)
(* refused again.  Stated step by step on the calls the session has left,  *)
(* Left = limit - query_count: a call with Left <= 0 is refused and        *)
(* changes nothing of Left; an approval with g at Left = 0 leaves the      *)
(* cookie alone and makes Left = g; a call with Left > 0 and a valid       *)
(* message is admitted and uses up exactly one.                            *)
(***************************************************************************)
Left(approvals, session, s) ==
    get_max_queries_for_session(approvals, s) - get_query_count(session)

RefusedAtLimit ==
    \A s \in Sessions, data \in ChatBodies :
        (ChatStep(s, data) /\ Left(approvalsFile, cookie[s], s) <= 0)
        => /\ LimitReached(last'.resp)
           /\ cookie'[s].query_count = cookie[s].query_count
           /\ approvalsFile' = approvalsFile

C4_ApprovalRegainsGrant ==
    [][/\ RefusedAtLimit
       /\ \A request_id \in RequestIds, g \in GrantValues :
             (ApproveStep(request_id, g)
              /\ Left(approvalsFile, cookie[last'.session_id], last'.session_id) = 0)
             => /\ cookie' = cookie
                /\ Left(approvalsFile', cookie'[last'.session_id], last'.session_id) = g
       /\ \A s \in Sessions, data \in ChatBodies :
             (ChatStep(s, data) /\ Valid(data) /\ Left(approvalsFile, cookie[s], s) > 0)
             => /\ ~LimitReached(last'.resp)
                /\ Left(approvalsFile', cookie'[s], s)
                     = Left(approvalsFile, cookie[s], s) - 1]_vars

(***************************************************************************)
(* C4, amended: a session whose query_count equals its limit is refused;   *)
(* once a request of a session that holds no grant yet is approved with g, *)
(* query_count is untouched and the session has g calls left; a call of a  *)
(* session with calls left passes the quota check and uses up exactly one  *)
(* of them when it is answered (by the LLM or by the classifier's          *)
(* refusal) and none otherwise; with none left the call is refused again.  *)
(***************************************************************************)
C4_FirstApprovalRegainsGrant ==
    [][/\ RefusedAtLimit
       /\ \A request_id \in RequestIds, g \in GrantValues :
             (ApproveStep(request_id, g)
              /\ GrantOf(approvalsFile, last'.session_id) = <<>>
              /\ Left(approvalsFile, cookie[last'.session_id], last'.session_id) = 0)
             => /\ cookie' = cookie
                /\ Left(approvalsFile', cookie'[last'.session_id], last'.session_id) = g
       /\ \A s \in Sessions, data \in ChatBodies :
             (ChatStep(s, data) /\ Left(approvalsFile, cookie[s], s) > 0)
             => /\ ~LimitReached(last'.resp)
                /\ Left(approvalsFile', cookie'[s], s)
                     = Left(approvalsFile, cookie[s], s)
                         - (IF last'.resp.status = 200 THEN 1 ELSE 0)]_vars

\* refused at the base limit, approved once with g = 1, one call answered,
\* and the call after it refused
C4_Witness ==
    /\ last.op = "chat"
    /\ LimitReached(last.resp)
    /\ last.resp.query_count = MAX_QUERIES_PER_SESSION + 1
    /\ last.resp.max_queries = MAX_QUERIES_PER_SESSION + 1
    /\ Len(ledgerFile.lines) = 1
    /\ ledgerFile.lines[1].status = "approved"
    /\ ledgerFile.lines[1].queries_granted = 1
    /\ GrantOf(approvalsFile, last.session_id) # <<>>
    /\ approvalsFile.map[last.session_id].queries_granted = 1

(***************************************************************************)
(* C1: in every reachable state the request ledger holds, for every        *)
(* session_id, at most one record with status = pending, also when two     *)
(* chat calls of one session that both carry an e-mail address run at the  *)
(* same time while the session is over its limit.                          *)
(***************************************************************************)
C1_OnePendingPerSession ==
    \A s \in Sessions : Cardinality(PendingLines(s)) <= 1

(***************************************************************************)
(* C11: an approve or deny call changes the request ledger or the approval *)
(* ledger only when the key it carries equals the configured admin secret; *)
(* with no secret configured every approve, deny and listing call is       *)
(* refused as "not configured", which is not the "Invalid key" refusal,    *)
(* whatever key it carries, and changes nothing.                           *)
(***************************************************************************)
NotConfigured ==
    { "Extension approval not configured", "Extension denial not configured",
      "Extension requests endpoint not configured" }

C11_KeyGuardsLedgers ==
    [][/\ (/\ last'.op \in {"approve", "deny"}
           /\ (ledgerFile' # ledgerFile \/ approvalsFile' # approvalsFile))
          => /\ ADMIN_RESET_KEY # ""
             /\ last'.data.kind = "obj"
             /\ last'.data.key = ADMIN_RESET_KEY
       /\ (last'.op \in {"approve", "deny", "list"} /\ ADMIN_RESET_KEY = "")
          => /\ last'.resp.status = 403
             /\ last'.resp.error \in NotConfigured
             /\ last'.resp.error # "Invalid key"
             /\ ledgerFile' = ledgerFile
             /\ approvalsFile' = approvalsFile]_vars

\* no secret is configured and a request is pending: an approve call that
\* carried no key (so one equal to the unset secret) was refused as not
\* configured
C11_Witness ==
    /\ ADMIN_RESET_KEY = ""
    /\ last.op = "approve"
    /\ last.data.kind = "obj"
    /\ last.data.key = ""
    /\ last.resp.status = 403
    /\ last.resp.error = "Extension approval not configured"
    /\ PendingLines("s1") # {}

(***************************************************************************)
(* C12: an approve or deny call with the right key and a request_id that   *)
(* matches no ledger record is rejected with the client error "Request not *)
(* found" and changes neither ledger.                                      *)
(***************************************************************************)
KnownId(request_id) ==
    \E i \in 1..Len(ledgerFile.lines) : ledgerFile.lines[i].request_id = request_id

RightKey(data) ==
    ADMIN_RESET_KEY # "" /\ data.kind = "obj" /\ data.key = ADMIN_RESET_KEY

C12_UnknownRequestRefused ==
    [][(/\ last'.op \in {"approve", "deny"}
        /\ RightKey(last'.data)
        /\ ~KnownId(last'.data.request_id))
       => /\ last'.resp.status = 404
          /\ last'.resp.error = "Request not found"
          /\ ledgerFile' = ledgerFile
          /\ approvalsFile' = approvalsFile]_vars

(***************************************************************************)
(* C13: an approve or deny call with bad or missing input fields (the body *)
(* null, no request_id, a queries_granted that is no integer) is rejected  *)
(* with a client error and changes neither ledger.                         *)
(***************************************************************************)
BadInput(op, data) ==
    \/ data.kind = "null"
    \/ data.request_id = <<>>
    \/ (op = "approve" /\ data.queries_granted.kind = "text")

ClientError(resp) == resp.status \in 400..499

C13_BadInputRejected ==
    [][(last'.op \in {"approve", "deny"} /\ BadInput(last'.op, last'.data))
       => /\ ClientError(last'.resp)
          /\ ledgerFile' = ledgerFile
          /\ approvalsFile' = approvalsFile]_vars

(***************************************************************************)
(* C14: when an over-limit call with an e-mail address creates a request,  *)
(* the outcome of the administrator's notification (sent, failure          *)
(* returned, exception raised, timeout) does not change the result: the    *)
(* record is in the ledger, created pending, the session is marked         *)
(* extension_requested and the response is limit_reached with              *)
(* extension_requested = true; and the record is in the ledger before the  *)
(* notification is attempted.                                              *)
(***************************************************************************)
RecordOf(file, request_id, s) ==
    \E i \in 1..Len(file.lines) :
        file.lines[i].request_id = request_id /\ file.lines[i].session_id = s

C14_NotificationNeverAborts ==
    [][/\ (last'.op = "chat" /\ last'.notified # "none")
          => /\ last'.notified \in {"True", "False", "caught"}
             /\ LimitReached(last'.resp)
             /\ ExtensionRequested(last'.resp)
             /\ cookie'[last'.session_id].extension_requested
             /\ RecordOf(ledgerFile', cookie'[last'.session_id].extension_request_id,
                         last'.session_id)
       /\ Len(ledgerFile'.lines) > Len(ledgerFile.lines)
          => ledgerFile'.lines[Len(ledgerFile'.lines)].status = "pending"
       /\ \A w \in Workers :
             (inflight'[w] # Idle /\ inflight'[w].pc = "notify")
             => RecordOf(ledgerFile',
                         request_id_of(inflight'[w].session_id, inflight'[w].t),
                         inflight'[w].session_id)]_vars

\* the notification raised an exception, and the request stands
C14_Witness ==
    /\ last.op = "chat"
    /\ last.notified = "caught"
    /\ ExtensionRequested(last.resp)
    /\ cookie[last.session_id].extension_requested
    /\ PendingLines(last.session_id) # {}

(***************************************************************************)
(* C15: an over-limit call that creates no request is answered with the    *)
(* "pending review" wording exactly when the session has a pending request *)
(* in the ledger, and with the "send your email" wording otherwise, also   *)
(* after an earlier request of the session was denied or approved.         *)
(***************************************************************************)
C15_WordingFollowsLedger ==
    [][(/\ last'.op = "chat"
        /\ LimitReached(last'.resp)
        /\ ~ExtensionRequested(last'.resp))
       => /\ last'.resp.message \in {"pending", "send_email"}
          /\ last'.resp.message = "pending" <=> PendingLines(last'.session_id) # {}]_vars

(***************************************************************************)
(* C16: a denied record does not block a fresh request.  When a request of *)
(* the session was denied and none of its requests is pending, an          *)
(* over-limit call of the session with an e-mail address appends a new     *)
(* pending record of the session to the ledger and is answered             *)
(* limit_reached with extension_requested = true.                          *)
(***************************************************************************)
DeniedLines(s) ==
    { i \in 1..Len(ledgerFile.lines) :
        /\ ledgerFile.lines[i].session_id = s
        /\ ledgerFile.lines[i].status = "denied" }

C16_DeniedDoesNotBlock ==
    [][(/\ last'.op = "chat"
        /\ HasEmail(last'.data)
        /\ OverLimit(last'.session_id)
        /\ DeniedLines(last'.session_id) # {}
        /\ PendingLines(last'.session_id) = {})
       => /\ Len(ledgerFile'.lines) = Len(ledgerFile.lines) + 1
          /\ SubSeq(ledgerFile'.lines, 1, Len(ledgerFile.lines)) = ledgerFile.lines
          /\ ledgerFile'.lines[Len(ledgerFile'.lines)].session_id = last'.session_id
          /\ ledgerFile'.lines[Len(ledgerFile'.lines)].status = "pending"
          /\ ledgerFile'.lines[Len(ledgerFile'.lines)].email
               = extract_email(strip(last'.data.message))
          /\ LimitReached(last'.resp)
          /\ ExtensionRequested(last'.resp)]_vars

\* the first request of s1 was denied, its second one is pending
C16_Witness ==
    /\ last.op = "chat"
    /\ last.session_id = "s1"
    /\ ExtensionRequested(last.resp)
    /\ Len(ledgerFile.lines) = 2
    /\ ledgerFile.lines[1].session_id = "s1"
    /\ ledgerFile.lines[1].status = "denied"
    /\ ledgerFile.lines[2].session_id = "s1"
    /\ ledgerFile.lines[2].status = "pending"

(***************************************************************************)
(* C17: a reader of the request ledger that runs while approve or deny     *)
(* rewrites the file sees the complete contents before the write or the    *)
(* complete contents after it, never a torn or partial file.  The reader   *)
(* is the listing of all requests.                                         *)
(***************************************************************************)
WholeContents ==
    IF Writing("w1") THEN { inflight["w1"].before, inflight["w1"].requests }
    ELSE { ledgerFile.lines }

C17_ReadersSeeWholeFile ==
    [][(/\ last'.op = "list"
        /\ last'.resp.status = 200
        /\ last'.resp.status_filter = "all"
        /\ ledgerFile' = ledgerFile
        /\ inflight' = inflight)
       => last'.resp.requests \in { newest_first(requests) : requests \in WholeContents }]_vars

(***************************************************************************)
(* C18: a request record, once created, is never removed from the ledger,  *)
(* for any interleaving of create, approve and deny: whenever no rewrite   *)
(* of the file is under way, the request a session created (the cookie     *)
(* holds its request_id) is in the ledger.                                 *)
(***************************************************************************)
C18_RecordsNeverRemoved ==
    (\A w \in Workers : inflight[w] = Idle)
    => \A s \in Sessions :
          cookie[s].extension_requested
          => RecordOf(ledgerFile, cookie[s].extension_request_id, s)

(***************************************************************************)
(* C19: when an approve call for a request of one session is followed,     *)
(* not overlapping, by an approve call for a request of another session,   *)
(* both are reflected afterwards: both ledger records are approved with    *)
(* their queries_granted and both sessions hold their grant.               *)
(***************************************************************************)
Approved(call) == call.op = "approve" /\ call.resp.status = 200

Reflected(call, ledger, approvals) ==
    /\ get_request_by_id(ledger, call.request_id) # NoRequest
    /\ get_request_by_id(ledger, call.request_id).status = "approved"
    /\ get_request_by_id(ledger, call.request_id).queries_granted = call.queries_granted
    /\ GrantOf(approvals, call.session_id) # <<>>
    /\ approvals.map[call.session_id].queries_granted = call.queries_granted
    /\ approvals.map[call.session_id].request_id = call.request_id

C19_BothApprovalsReflected ==
    [][(Approved(last) /\ Approved(last') /\ last.session_id # last'.session_id)
       => /\ Reflected(last, ledgerFile', approvalsFile')
          /\ Reflected(last', ledgerFile', approvalsFile')]_vars

\* a request of s2 was approved with 1 right after a request of s1 was
\* approved, and both grants are on file
C19_Witness ==
    /\ Approved(last)
    /\ last.session_id = "s2"
    /\ last.queries_granted = 1
    /\ Len(ledgerFile.lines) = 2
    /\ ledgerFile.lines[1].status = "approved"
    /\ ledgerFile.lines[2].status = "approved"
    /\ ledgerFile.lines[1].session_id # ledgerFile.lines[2].session_id
    /\ DOMAIN approvalsFile.map = {"s1", "s2"}

(***************************************************************************)
(* C20: no two records of the request ledger share a request_id, for any   *)
(* sequence of create, approve and deny calls, a deny followed by a retry  *)
(* of the same session included.                                           *)
(***************************************************************************)
C20_RequestIdsUnique ==
    \A i, j \in 1..Len(ledgerFile.lines) :
        i # j => ledgerFile.lines[i].request_id # ledgerFile.lines[j].request_id

(***************************************************************************)
(* C21: when the approval ledger file is missing or corrupt (it does not   *)
(* parse, or the session's entry lacks queries_granted), the lookup of the *)
(* effective limit answers base_limit for the session and never fails its  *)
(* caller: a /chat call is then answered, and refused exactly when the     *)
(* session's query_count has reached base_limit.                           *)
(***************************************************************************)
NoGrantReadable(file, s) ==
    \/ file.state \in {"missing", "unparseable"}
    \/ (s \in DOMAIN file.map /\ "queries_granted" \notin DOMAIN file.map[s])

C21_CorruptMeansNoGrant ==
    [][/\ \A s \in Sessions :
             NoGrantReadable(approvalsFile, s)
             => get_max_queries_for_session(approvalsFile, s) = MAX_QUERIES_PER_SESSION
       /\ (last'.op = "chat" /\ NoGrantReadable(approvalsFile, last'.session_id))
          => /\ last'.resp.status \in {200, 429}
             /\ LimitReached(last'.resp)
                  <=> cookie[last'.session_id].query_count >= MAX_QUERIES_PER_SESSION
             /\ last'.resp.max_queries = MAX_QUERIES_PER_SESSION]_vars

\* s2, whose entry lacks queries_granted, was refused at the base limit
\* while s1's grant in the same file is good
C21_Witness ==
    /\ last.op = "chat"
    /\ last.session_id = "s2"
    /\ LimitReached(last.resp)
    /\ last.resp.max_queries = MAX_QUERIES_PER_SESSION
    /\ approvalsFile.state = "ok"
    /\ "s2" \in DOMAIN approvalsFile.map
    /\ "queries_granted" \notin DOMAIN approvalsFile.map["s2"]
    /\ get_max_queries_for_session(approvalsFile, "s1") = MAX_QUERIES_PER_SESSION + 1

(***************************************************************************)
(* C22: every create call appends to the ledger one record with the fields *)
(* it was given (so after N create calls on an empty ledger the file holds *)
(* those N records); the listing get_all("all") returns the records of the *)
(* file, each once and with all fields equal, ordered newest-first by      *)
(* timestamp; get_all(s) returns exactly the records whose status is s;    *)
(* and get_pending returns the same list as get_all("pending").            *)
(***************************************************************************)
Count(seq, r) == Cardinality({ i \in 1..Len(seq) : seq[i] = r })

Records(seq) == { seq[i] : i \in 1..Len(seq) }

Selected(r, status_filter) == status_filter = "all" \/ r.status = status_filter

NewestFirst(requests) ==
    \A i, j \in 1..Len(requests) : i < j => requests[i].timestamp >= requests[j].timestamp

C22_ListingReturnsLedger ==
    [][/\ get_pending_requests(ledgerFile) = get_all_requests(ledgerFile, "pending")
       /\ (last'.op = "list" /\ last'.resp.status = 200)
          => /\ \A r \in Records(last'.resp.requests) \cup Records(ledgerFile.lines) :
                   Count(last'.resp.requests, r)
                     = IF Selected(r, last'.resp.status_filter)
                       THEN Count(ledgerFile.lines, r) ELSE 0
             /\ NewestFirst(last'.resp.requests)
       /\ (last'.op = "chat" /\ ExtensionRequested(last'.resp))
          => /\ Len(ledgerFile'.lines) = Len(ledgerFile.lines) + 1
             /\ SubSeq(ledgerFile'.lines, 1, Len(ledgerFile.lines)) = ledgerFile.lines
             /\ \E t \in Times :
                   ledgerFile'.lines[Len(ledgerFile'.lines)]
                     = [session_id |-> last'.session_id,
                        email |-> extract_email(strip(last'.data.message)),
                        timestamp |-> t, status |-> "pending", queries_granted |-> 0,
                        approved_at |-> None,
                        request_id |-> cookie'[last'.session_id].extension_request_id]]_vars

\* two sessions created a request each, the second later than the first,
\* and the listing of all requests shows the second one first
C22_Witness ==
    /\ last.op = "list"
    /\ last.resp.status = 200
    /\ last.resp.status_filter = "all"
    /\ Len(ledgerFile.lines) = 2
    /\ ledgerFile.lines[1].status = "pending"
    /\ ledgerFile.lines[2].status = "pending"
    /\ ledgerFile.lines[1].timestamp < ledgerFile.lines[2].timestamp
    /\ last.resp.requests = <<ledgerFile.lines[2], ledgerFile.lines[1]>>

(***************************************************************************)
(* C23: a session's query_count never decreases, for any sequence of chat  *)
(* calls of the session with no reset among them, calls of the session     *)
(* that overlap in time and each write back the client-side session        *)
(* included.                                                               *)
(***************************************************************************)
C23_QueryCountNeverDecreases ==
    [][\A s \in Sessions : cookie'[s].query_count >= cookie[s].query_count]_vars

(***************************************************************************)
(* C24: in every reachable state a session's query_count is at most its    *)
(* effective limit (so the queries_remaining that /status and /chat report *)
(* is never negative), for any sequence of chat, approve and deny calls, a *)
(* later approval for the same session with a smaller queries_granted      *)
(* included.                                                               *)
(***************************************************************************)
C24_CountWithinLimit ==
    \A s \in Sessions :
        get_query_count(cookie[s]) <= get_max_queries_for_session(approvalsFile, s)

(***************************************************************************)
(* C25: the status of a request only moves from pending to approved or     *)
(* from pending to denied: once a record is approved or denied, no later   *)
(* approve or deny call changes its status, queries_granted or             *)
(* approved_at.                                                            *)
(***************************************************************************)
C25_SettledStaysSettled ==
    [][\A i \in 1..Len(ledgerFile.lines) :
          ledgerFile.lines[i].status # "pending"
          => /\ i <= Len(ledgerFile'.lines)
             /\ ledgerFile'.lines[i].status = ledgerFile.lines[i].status
             /\ ledgerFile'.lines[i].queries_granted = ledgerFile.lines[i].queries_granted
             /\ ledgerFile'.lines[i].approved_at = ledgerFile.lines[i].approved_at]_vars

(***************************************************************************)
(* C26: between completed administrator calls the two ledgers agree:       *)
(* whenever the approval ledger holds a grant for session S with           *)
(* request_id R, the request ledger holds a record R with session_id S,    *)
(* status approved and the same queries_granted.                           *)
(***************************************************************************)
C26_LedgersAgree ==
    \A s \in DOMAIN approvalsFile.map :
        \E i \in 1..Len(ledgerFile.lines) :
            /\ ledgerFile.lines[i].request_id = approvalsFile.map[s].request_id
            /\ ledgerFile.lines[i].session_id = s
            /\ ledgerFile.lines[i].status = "approved"
            /\ ledgerFile.lines[i].queries_granted = approvalsFile.map[s].queries_granted

(***************************************************************************)
(* C27: an approve call for a request of session S leaves the grant and    *)
(* the effective limit of every other session as they were when the call   *)
(* opened the approval ledger for writing, also when that file was         *)
(* unreadable at the time the call read it.                                *)
(***************************************************************************)
C27_ApproveLeavesOtherGrants ==
    [][\A w \in Workers :
          (Dumping(w) /\ inflight'[w] = Idle)
          => \A s \in Sessions \ {inflight[w].ext_request.session_id} :
                /\ GrantOf(approvalsFile', s) = GrantOf(inflight[w].before, s)
                /\ get_max_queries_for_session(approvalsFile', s)
                     = get_max_queries_for_session(inflight[w].before, s)]_vars

(***************************************************************************)
(* C28: approve(request_id) and deny(request_id) change only the first     *)
(* ledger record whose request_id matches: every other record keeps all    *)
(* its fields, the changed record keeps its session_id, email, timestamp   *)
(* and request_id, and the number and the order of the records in the file *)
(* are unchanged.                                                          *)
(***************************************************************************)
Settled(call) == call.op \in {"approve", "deny"} /\ call.resp.status = 200

C28_OnlyFirstMatchChanges ==
    [][Settled(last')
       => LET k == first_match(ledgerFile.lines, last'.request_id)
          IN /\ k # 0
             /\ Len(ledgerFile'.lines) = Len(ledgerFile.lines)
             /\ \A i \in 1..Len(ledgerFile.lines) :
                   IF i = k
                   THEN /\ ledgerFile'.lines[i].status
                             = (IF last'.op = "approve" THEN "approved" ELSE "denied")
                        /\ ledgerFile'.lines[i].session_id = ledgerFile.lines[i].session_id
                        /\ ledgerFile'.lines[i].email = ledgerFile.lines[i].email
                        /\ ledgerFile'.lines[i].timestamp = ledgerFile.lines[i].timestamp
                        /\ ledgerFile'.lines[i].request_id = ledgerFile.lines[i].request_id
                   ELSE ledgerFile'.lines[i] = ledgerFile.lines[i]]_vars

\* two records carry the request_id that was approved: the first one is
\* approved, the second one is still pending
C28_Witness ==
    /\ last.op = "approve" /\ last.resp.status = 200
    /\ Len(ledgerFile.lines) = 2
    /\ ledgerFile.lines[1].request_id = last.request_id
    /\ ledgerFile.lines[2].request_id = last.request_id
    /\ ledgerFile.lines[1].status = "approved"
    /\ ledgerFile.lines[2].status = "pending"

(***************************************************************************)
(* C29: the classifier and the LLM are called only by /chat calls for      *)
(* which query_count < effective_limit held at the quota check; a call     *)
(* refused as limit_reached calls neither and changes neither query_count  *)
(* nor the conversation transcript.                                        *)
(***************************************************************************)
C29_RefusedCallsNoService ==
    [][last'.op = "chat"
       => /\ last'.invoked # {}
             => cookie[last'.session_id].query_count < EffectiveLimit(last'.session_id)
          /\ LimitReached(last'.resp)
             => /\ last'.invoked = {}
                /\ cookie'[last'.session_id].query_count
                     = cookie[last'.session_id].query_count
                /\ cookie'[last'.session_id].conversation
                     = cookie[last'.session_id].conversation]_vars

\* a question the LLM had answered before was refused at the limit, with
\* no service called and the transcript as the answered call left it
C29_Witness ==
    /\ last.op = "chat"
    /\ last.data = Body(Question)
    /\ LimitReached(last.resp)
    /\ last.invoked = {}
    /\ cookie[last.session_id].query_count = MAX_QUERIES_PER_SESSION
    /\ Len(cookie[last.session_id].conversation) = 2

(***************************************************************************)
(* C30: a /chat call that passes the quota check and the validation and    *)
(* whose LLM call fails (it is answered with a server error) leaves the    *)
(* session as it was: query_count and the conversation transcript are the  *)
(* same as before the call.                                                *)
(***************************************************************************)
C30_FailedCallLeavesSession ==
    [][(last'.op = "chat" /\ last'.resp.status = 500)
       => /\ cookie'[last'.session_id].query_count
               = cookie[last'.session_id].query_count
          /\ cookie'[last'.session_id].conversation
               = cookie[last'.session_id].conversation]_vars

(***************************************************************************)
(* C31: the conversation transcript of a session never holds more than 20  *)
(* entries, and after every call it is the 20 most recently added messages *)
(* (all of them while there are fewer), in the order they were added: an   *)
(* answered question adds the user's message and then the assistant's, a   *)
(* question the LLM failed on adds the user's message, and no other call   *)
(* adds anything.                                                          *)
(***************************************************************************)
MostRecent(messages) ==
    LET kept == Min(Len(messages), 20)
    IN [i \in 1..kept |-> messages[Len(messages) - kept + i]]

UserMessage(call) ==
    [role |-> "user", content |-> sanitize_input(strip(call.data.message))]

AddedTo(s) ==
    IF last'.op # "chat" \/ last'.session_id # s THEN <<>>
    ELSE IF failures' # failures THEN <<UserMessage(last')>>
    ELSE IF /\ cookie'[s].query_count # cookie[s].query_count
            /\ "filtered_pre_llm" \notin DOMAIN last'.resp
         THEN <<UserMessage(last'), [role |-> "assistant", content |-> <<"reply">>]>>
    ELSE <<>>

C31_TranscriptIsLastTwenty ==
    [][\A s \in Sessions :
          /\ Len(cookie'[s].conversation) <= 20
          /\ cookie'[s].conversation
               = MostRecent(cookie[s].conversation \o AddedTo(s))]_vars

\* the eleventh answered question of a session, by which more than 20
\* messages were added: the oldest are gone, the transcript starts with a
\* short question from the start of the session and ends with the last
\* exchange
C31_Witness ==
    /\ last.op = "chat"
    /\ last.session_id = "s1"
    /\ last.data = Body(Question)
    /\ last.resp.status = 200
    /\ cookie["s1"].query_count = 11
    /\ Len(cookie["s1"].conversation) = 20
    /\ cookie["s1"].conversation[1] = [role |-> "user", content |-> ShortQuestion]
    /\ cookie["s1"].conversation[19] = [role |-> "user", content |-> Question]
    /\ cookie["s1"].conversation[20].role = "assistant"

====
